---- MODULE Spec2Model ----
(***************************************************************************)
(* Model of the watermarker service (src/app.py): the upload intake, the   *)
(* two Celery tasks process_video_task and process_zip_task, the retry     *)
(* protocol of Celery's Task.retry as the tasks call it, the files and     *)
(* scratch directories the tasks create and delete, and the status         *)
(* endpoint.                                                               *)
(***************************************************************************)
EXTENDS Integers, Sequences, FiniteSets, TLC

\* ------------------------------------------------------------------ bounds

\* number of upload requests (a request's task has the request's number)
MaxJobs == 2
\* the clock int(time.time()) runs over the seconds 0..MaxTime
MaxTime == 1
\* largest member count of the archives of PctSpec
MaxTotal == 50

Jobs == 1..MaxJobs
Times == 0..MaxTime

\* --------------------------------------------------- program constants

\* self.retry(..., max_retries=2)
MaxRetries == 2
\* check_disk_space(40): the intake floor in GB
IntakeDiskFloor == 40
\* check_system_resources: free_gb > 10
WorkerDiskFloor == 10
\* check_system_resources: mem_available_gb > 1.5, in tenths of a GB
WorkerMemFloor10 == 15
\* check_system_resources: cpu_percent < 85
WorkerCpuCeiling == 85
\* width of the significand of a Python float (IEEE 754 binary64)
MantBits == 53

\* ------------------------------------------- Python float arithmetic
\* int((processed_count / total_files) * 100) is computed in binary64: the
\* quotient is rounded to 53 bits, the product by 100 is rounded again, and
\* int() truncates.  A float is [m |-> 53 bits, most significant first,
\* s |-> scale]: the number m * 2^-s.

RECURSIVE Pow2Mod(_, _)
\* 2^i mod t, by repeated squaring
Pow2Mod(i, t) ==
    IF i = 0 THEN 1 % t
    ELSE LET h == Pow2Mod(i \div 2, t)
         IN  (h * h * (IF i % 2 = 1 THEN 2 ELSE 1)) % t

\* the remainder left after n binary digits of r/t
RemAfter(r, t, n) == (r * Pow2Mod(n, t)) % t

\* the first n binary digits of r/t after the point (0 <= r < t)
Expand(r, t, n) == [i \in 1..n |-> (2 * RemAfter(r, t, i - 1)) \div t]

\* number of zero digits before the first one digit of r/t (0 < r < t)
LeadZeros(r, t) ==
    (CHOOSE i \in 1..(t + 1) :
        /\ (2 * RemAfter(r, t, i - 1)) \div t = 1
        /\ \A k \in 1..(i - 1) : (2 * RemAfter(r, t, k - 1)) \div t = 0) - 1

\* bits + 1; one bit longer when every bit was 1
BitsInc(b) ==
    IF \A i \in 1..Len(b) : b[i] = 1
    THEN <<1>> \o [i \in 1..Len(b) |-> 0]
    ELSE LET p == CHOOSE i \in 1..Len(b) : b[i] = 0 /\ \A k \in (i + 1)..Len(b) : b[k] = 1
         IN  [i \in 1..Len(b) |-> IF i < p THEN b[i] ELSE IF i = p THEN 1 ELSE 0]

RECURSIVE BitsValTo(_, _)
\* the number written by the first n bits of b
BitsValTo(b, n) == IF n = 0 THEN 0 ELSE 2 * BitsValTo(b, n - 1) + b[n]

BitsVal(b) == BitsValTo(b, Len(b))

RECURSIVE NatBits(_)
\* the bits of n, without leading zeros
NatBits(n) == IF n = 0 THEN <<>> ELSE NatBits(n \div 2) \o <<n % 2>>

\* the significand is multiplied in limbs of 14 bits, so that no
\* intermediate product passes 2^31
LimbBits == 14
LimbBase == 16384

\* the LimbBits bits of r < LimbBase
LimbToBits(r) ==
    [i \in 1..LimbBits |->
        (r \div BitsVal(<<1>> \o [j \in 1..(LimbBits - i) |-> 0])) % 2]

\* a 53-bit string times k (k < 2^16), exactly
MulSmall(b, k) ==
    LET l0 == BitsVal(SubSeq(b, 40, 53))
        l1 == BitsVal(SubSeq(b, 26, 39))
        l2 == BitsVal(SubSeq(b, 12, 25))
        l3 == BitsVal(SubSeq(b, 1, 11))
        p0 == l0 * k
        p1 == l1 * k + (p0 \div LimbBase)
        p2 == l2 * k + (p1 \div LimbBase)
        p3 == l3 * k + (p2 \div LimbBase)
    IN  NatBits(p3) \o LimbToBits(p2 % LimbBase) \o LimbToBits(p1 % LimbBase)
                   \o LimbToBits(p0 % LimbBase)

\* round the number b * 2^-s (plus a nonzero remainder below the last bit
\* when sticky) to 53 bits, to nearest, ties to even
RoundNearestEven(b, s, sticky) ==
    LET d    == Len(b) - MantBits
        keep == SubSeq(b, 1, MantBits)
        g    == IF d >= 1 THEN b[MantBits + 1] ELSE 0
        st   == sticky \/ \E i \in (MantBits + 2)..Len(b) : b[i] = 1
        up   == g = 1 /\ (st \/ keep[MantBits] = 1)
        r    == IF up THEN BitsInc(keep) ELSE keep
    IN  IF Len(r) > MantBits
        THEN [m |-> SubSeq(r, 1, MantBits), s |-> s - d - 1]
        ELSE [m |-> r, s |-> s - d]

FloatOne == [m |-> <<1>> \o [i \in 1..(MantBits - 1) |-> 0], s |-> MantBits - 1]

\* the float c / t of two ints, 0 < c <= t
FloatDiv(c, t) ==
    IF c = t THEN FloatOne
    ELSE LET z      == LeadZeros(c, t)
             digits == Expand(c, t, z + MantBits + 1)
         IN  RoundNearestEven(SubSeq(digits, z + 1, z + MantBits + 1),
                              z + MantBits + 1,
                              RemAfter(c, t, z + MantBits + 1) # 0)

\* the float f * k, k a small int
FloatMul(f, k) == RoundNearestEven(MulSmall(f.m, k), f.s, FALSE)

\* int(f), f >= 0
FloatTrunc(f) ==
    IF f.s >= MantBits THEN 0 ELSE BitsVal(SubSeq(f.m, 1, MantBits - f.s))

\* int((processed_count / total_files) * 100) if total_files > 0 else 0
Percent(c, t) ==
    IF t > 0
    THEN (IF c = 0 THEN 0 ELSE FloatTrunc(FloatMul(FloatDiv(c, t), 100)))
    ELSE 0

\* ------------------------------------------------------------ data model

\* Config.ALLOWED_EXTENSIONS_VIDEO
ALLOWED_EXTENSIONS_VIDEO == {"mp4", "avi", "mov", "mkv"}

\* str.lower() on the extensions of the model
Lower(e) == CASE e = "MP4" -> "mp4" [] e = "TXT" -> "txt" [] e = "ZIP" -> "zip" [] OTHER -> e

\* A name is [stem, ext]: stem 0 is the empty stem, ext "" is a name
\* without a dot.  The empty name '' is [stem |-> 0, ext |-> ""].
EmptyName == [stem |-> 0, ext |-> ""]

\* allowed_file_video(filename)
allowed_file_video(name) ==
    LET ext == IF name.ext # "" THEN Lower(name.ext) ELSE ""
    IN  ext \in ALLOWED_EXTENSIONS_VIDEO

\* allowed_file_img(filename), on the extension ("" for a name without a dot)
allowed_file_img(ext) == ext # "" /\ Lower(ext) \in {"png", "jpg", "jpeg", "webp", "bmp"}

\* An archive member (ZipInfo): the directory it sits in, its name, and
\* whether it is a directory entry (filename ending in '/').
FileMember(d, st, e) == [dir |-> d, stem |-> st, ext |-> e, isdir |-> FALSE]
DirMember(d) == [dir |-> d, stem |-> 0, ext |-> "", isdir |-> TRUE]

\* os.path.basename(file_info.filename)
BaseName(m) == IF m.isdir THEN EmptyName ELSE [stem |-> m.stem, ext |-> m.ext]

\* [f for f in zf.infolist() if not f.is_dir() and allowed_file_video(basename)]
VideoFiles(members) ==
    SelectSeq(members, LAMBDA m : ~m.isdir /\ allowed_file_video(BaseName(m)))

\* The uploads of the model: ok is FALSE for a file that is no zip archive.
NoArchive == [ok |-> FALSE, members |-> <<>>]
ArchiveChoices ==
    { NoArchive,
      [ok |-> TRUE, members |-> <<DirMember("d1"), FileMember("d1", 3, "txt")>>],
      [ok |-> TRUE, members |-> <<FileMember("d1", 1, "mp4"), FileMember("d1", 3, "TXT"),
                                  FileMember("d2", 2, "MP4")>>],
      [ok |-> TRUE, members |-> <<FileMember("d1", 1, "mp4"), FileMember("d2", 1, "mp4")>>] }

\* The values check_system_resources can measure: free disk (GB), available
\* memory (tenths of a GB), CPU load (percent), or a failing OS query.
AllMeasurements ==
    [free_gb : {WorkerDiskFloor, WorkerDiskFloor + 1},
     mem10 : {WorkerMemFloor10, WorkerMemFloor10 + 1},
     cpu : {WorkerCpuCeiling - 1, WorkerCpuCeiling},
     oserror : BOOLEAN]

\* a measurement that passes the three checks
GoodMeasurement == [free_gb |-> WorkerDiskFloor + 1, mem10 |-> WorkerMemFloor10 + 1,
                    cpu |-> WorkerCpuCeiling - 1, oserror |-> FALSE]

\* the measurements of the worker model: one that passes, one with a busy CPU
Measurements == {GoodMeasurement, [GoodMeasurement EXCEPT !.cpu = WorkerCpuCeiling]}

\* a check that reports ok when the OS cannot be queried
check_system_resources_OkOnError(m) ==
    [disk_ok |-> m.oserror \/ m.free_gb > WorkerDiskFloor,
     mem_ok |-> m.oserror \/ m.mem10 > WorkerMemFloor10,
     cpu_ok |-> m.oserror \/ m.cpu < WorkerCpuCeiling,
     free_gb |-> m.free_gb, mem10 |-> m.mem10, cpu |-> m.cpu]

\* check_system_resources()
check_system_resources(m) ==
    IF m.oserror
    THEN [disk_ok |-> FALSE, mem_ok |-> FALSE, cpu_ok |-> FALSE,
          free_gb |-> 0, mem10 |-> 0, cpu |-> 100]
    ELSE [disk_ok |-> m.free_gb > WorkerDiskFloor, mem_ok |-> m.mem10 > WorkerMemFloor10,
          cpu_ok |-> m.cpu < WorkerCpuCeiling,
          free_gb |-> m.free_gb, mem10 |-> m.mem10, cpu |-> m.cpu]

\* a floor that lets pass a disk exactly at the floor
check_disk_space_AtFloor(free_gb) == free_gb >= IntakeDiskFloor

\* check_disk_space(40)
check_disk_space(free_gb) == free_gb > IntakeDiskFloor

\* ------------------------------------------------- the upload request

\* POSITION_MAP
POSITION_MAP ==
    [top_left     |-> [x |-> "10", y |-> "10"],
     top_right    |-> [x |-> "main_w-overlay_w-10", y |-> "10"],
     bottom_left  |-> [x |-> "10", y |-> "main_h-overlay_h-10"],
     bottom_right |-> [x |-> "main_w-overlay_w-10", y |-> "main_h-overlay_h-10"],
     center       |-> [x |-> "(main_w-overlay_w)/2", y |-> "(main_h-overlay_h)/2"]]

\* a form field that the request does not carry
Missing == [k |-> "missing"]

\* position = request.form.get('position', 'bottom_right')
\* coords = POSITION_MAP.get(position, POSITION_MAP['bottom_right'])
CoordsDefaultTopLeft(field) ==
    LET position == IF field = Missing THEN "top_left" ELSE field.v
    IN  IF position \in DOMAIN POSITION_MAP
        THEN POSITION_MAP[position]
        ELSE POSITION_MAP["top_left"]

Coords(field) ==
    LET position == IF field = Missing THEN "bottom_right" ELSE field.v
    IN  IF position \in DOMAIN POSITION_MAP
        THEN POSITION_MAP[position]
        ELSE POSITION_MAP["bottom_right"]

\* Floats of the transparency computation, in hundredths: a number
\* [k |-> "num", v |-> n] is n / 100; "nan", "inf" and "ninf" are the floats
\* that float() reads from 'nan', 'inf' and '-inf'.
Num(n) == [k |-> "num", v |-> n]
NaN == [k |-> "nan"]
PosInf == [k |-> "inf"]
NegInf == [k |-> "ninf"]

\* the literals 0.1, 1.0 and 0.5 of upload_files, in hundredths
TransparencyFloor == 10
TransparencyCeiling == 100
TransparencyDefault == 50

\* a < b on floats: every comparison with nan is False
FloatLess(a, b) ==
    IF a = NaN \/ b = NaN THEN FALSE
    ELSE IF a = NegInf THEN b # NegInf
    ELSE IF a = PosInf THEN FALSE
    ELSE IF b = NegInf THEN FALSE
    ELSE IF b = PosInf THEN TRUE
    ELSE a.v < b.v

\* Python's min(a, b) and max(a, b): the first argument, unless the second
\* is smaller (greater)
PyMin(a, b) == IF FloatLess(b, a) THEN b ELSE a
PyMax(a, b) == IF FloatLess(a, b) THEN b ELSE a

\* float(value): the float read, or the ValueError raised ([k |-> "error"]).
\* A form value is a string: Missing, a text that is no number
\* ([k |-> "text"]), or the decimal, 'nan', 'inf' or '-inf' written as the
\* float it denotes.
ParseFloat(value) == IF value.k = "text" THEN [k |-> "error"] ELSE value

\* max(0.1, min(1.0, x))
Clamp(x) == PyMax(Num(TransparencyFloor), PyMin(Num(TransparencyCeiling), x))

\* try: transparency = max(0.1, min(1.0, float(request.form.get('transparency', 0.5))))
\* except: transparency = 0.5
Transparency(field) ==
    LET value == IF field = Missing THEN Num(TransparencyDefault) ELSE field
        f     == ParseFloat(value)
    IN  IF f.k = "error" THEN Num(TransparencyDefault) ELSE Clamp(f)

\* ------------------------------------------------------------------ state

VARIABLES
    now,         \* int(time.time())
    njobs,       \* number of calls of upload_files so far; the task that a call enqueues
                 \* is known by the call's number
    job,         \* job[j]: the arguments of task j's message: the kind of task and the second
                 \* of intake its paths carry; NoJob before intake and once the task has ended
    files,       \* upload and watermark folders: [p |-> path, o |-> task whose intake wrote
                 \* it, arch |-> its content when it is an uploaded archive]
    dirs,        \* TEMP_DIR: dirs[<<d, t>>] is the task that created <d>_<t>, 0 if it does not exist
    scratch,     \* the files inside the scratch directories
    outputs,     \* OUTPUT_FOLDER: [p |-> path, o |-> writer, ok |-> complete, content |-> archived files]
    state,       \* the result backend's state of each task
    meta,        \* the result backend's info of each task
    retries,     \* request.retries of the task's current message
    queued,      \* a message for the task waits in the broker
    pc,          \* where the worker is in the task's current attempt
    ts,          \* timestamp of the attempt's scratch directories, -1 while temp_unzip is None
    vfiles,      \* video_files
    idx,         \* position of the for loop in video_files
    pcount,      \* processed_count
    pany,        \* processed_any (process_zip_task), success (process_video_task)
    exc,         \* the exception the attempt caught
    outcome,     \* how the attempt leaves the task function
    executions,  \* number of attempts started
    extracts,    \* members written to the extraction directory in this attempt
    deletes,     \* extracted members removed by this attempt
    http,        \* the response of the last call of upload_files
    gate         \* what check_system_resources met and returned in the attempt

vars == <<now, njobs, job, files, dirs, scratch, outputs, state, meta, retries, queued,
          pc, ts, vfiles, idx, pcount, pany, exc, outcome, executions, extracts, deletes,
          http, gate>>

NoJob == [kind |-> "none", t |-> 0, wm |-> <<"watermark", 0>>,
          transparency |-> Num(TransparencyDefault), coords |-> POSITION_MAP["bottom_right"]]
NoResponse == [code |-> 0]

\* An exception: its message and the values the message embeds.
Exc(msg) == [msg |-> msg, measured |-> <<>>]
NoExc == Exc("")
\* f"Recursos insuficientes. Disco: {free_gb:.1f}GB, Memoria: {mem_avail:.1f}GB, CPU: {cpu_percent}%"
ResourceError(r) ==
    [msg |-> "Recursos insuficientes", measured |-> <<r.free_gb, r.mem10, r.cpu>>]
\* the locals disk_ok, ..., cpu_percent before check_system_resources has run
NoGate == [called |-> FALSE]
NoMeta == [tag |-> "none"]

\* ------------------------------------------------------------------ paths

\* watermark_path as the task's message carries it:
\* f"watermark_{int(time.time())}_{secure_filename(...)}" in WATERMARK_FOLDER,
\* <<"watermark", t>> when its extension is .png, <<"watermark_src", t>> else
WmPath(j) == job[j].wm
\* f"video_{...}" / f"zip_{...}" in UPLOAD_FOLDER
InPath(j) == <<job[j].kind, job[j].t>>
\* f"watermarked_{name}" / f"processed_{stem}.zip" in OUTPUT_FOLDER: no timestamp
OutPath(j) == <<"out", job[j].kind>>

Exists(p) == \E f \in files : f.p = p
WriteFile(fs, p, j, arch) == {f \in fs : f.p # p} \cup {[p |-> p, o |-> j, arch |-> arch]}
RemoveFiles(fs, ps) == {f \in fs : f.p \notin ps}

DirExists(d, t) == dirs[<<d, t>>] # 0
ScratchExists(d, t, name) == \E f \in scratch : f.d = d /\ f.t = t /\ f.name = name
WriteScratch(sc, d, t, name, j, ok) ==
    {f \in sc : ~(f.d = d /\ f.t = t /\ f.name = name)}
        \cup {[d |-> d, t |-> t, name |-> name, o |-> j, ok |-> ok]}
WriteOutput(os, p, j, ok, content) ==
    {f \in os : f.p # p} \cup {[p |-> p, o |-> j, ok |-> ok, content |-> content]}

\* the archive stored at path p
ArchiveAt(p) == (CHOOSE f \in files : f.p = p).arch

\* ------------------------------------------------------- Celery's retry
\* Task.retry: retries = request.retries + 1; past max_retries the caught
\* exception is raised (the task fails), else the task is sent again and
\* Retry is raised.

\* a budget that compares request.retries itself, one attempt too generous
RetriesExceededLate(r) == r > MaxRetries

RetriesExceeded(r) == r + 1 > MaxRetries

\* a retry that sends the task again whatever the budget says
RetrySendsAlways(r) == TRUE

RetrySends(r) == ~RetriesExceeded(r)

\* the paths the except clause of process_video_task removes
VideoExceptRemoves(j) == {InPath(j), WmPath(j)}

\* a finally clause that forgets temp_output
ZipFinallyDirsUnzipOnly == {"unzip"}

\* the scratch directories the finally clause of process_zip_task removes
ZipFinallyDirs == {"unzip", "output"}

\* ---------------------------------------------------------------- intake

Init ==
    /\ now = 0
    /\ njobs = 0
    /\ job = [j \in Jobs |-> NoJob]
    /\ files = {}
    /\ dirs = [d \in {"unzip", "output"} \X Times |-> 0]
    /\ scratch = {}
    /\ outputs = {}
    /\ state = [j \in Jobs |-> "NONE"]
    /\ meta = [j \in Jobs |-> NoMeta]
    /\ retries = [j \in Jobs |-> 0]
    /\ queued = [j \in Jobs |-> FALSE]
    /\ pc = [j \in Jobs |-> "idle"]
    /\ ts = [j \in Jobs |-> -1]
    /\ vfiles = [j \in Jobs |-> <<>>]
    /\ idx = [j \in Jobs |-> 0]
    /\ pcount = [j \in Jobs |-> 0]
    /\ pany = [j \in Jobs |-> FALSE]
    /\ exc = [j \in Jobs |-> NoExc]
    /\ outcome = [j \in Jobs |-> ""]
    /\ executions = [j \in Jobs |-> 0]
    /\ extracts = [j \in Jobs |-> 0]
    /\ deletes = [j \in Jobs |-> 0]
    /\ http = NoResponse
    /\ gate = [j \in Jobs |-> NoGate]

attempt == <<ts, vfiles, idx, pcount, pany, exc, outcome, extracts, deletes>>
disk == <<files, dirs, scratch, outputs>>
backend == <<state, meta>>

\* int(time.time()) moves to the next second
Tick ==
    /\ now < MaxTime
    /\ now' = now + 1
    /\ UNCHANGED <<gate, http, njobs, job, disk, backend, retries, queued, pc, attempt, executions>>

\* The request: wm is the extension of the watermark file's name ("missing"
\* when there is no such file), video the extension of video_file's name and
\* zip that of zip_file's ("missing" when the file is absent or has no name),
\* arch the content of zip_file.
\* The environment of the call: the free disk space measured, whether ffmpeg
\* converts the watermark, and the call that raises, if one does.
Staged(fs, ps, o, arch) == {f \in fs : f.p \notin ps} \cup {[p |-> q, o |-> o, arch |-> arch] : q \in ps}

\* upload_files with process_video_file and process_zip_file
upload_files(req, env) ==
    /\ njobs < MaxJobs
    /\ njobs' = njobs + 1
    /\ LET j      == njobs + 1
           src    == <<"watermark_src", now>>
           png    == <<"watermark", now>>
           first  == IF Lower(req.wm) = "png" THEN png ELSE src
           conv   == first = src /\ env.convert_ok
           wm     == IF conv THEN png ELSE first
           kind   == IF req.video # "missing" THEN "video"
                     ELSE IF req.zip # "missing" THEN "zip" ELSE "none"
           up     == <<kind, now>>
           okname == IF kind = "video"
                     THEN allowed_file_video([stem |-> 1, ext |-> req.video])
                     ELSE Lower(req.zip) = "zip"
           arch   == IF kind = "zip" THEN req.arch ELSE NoArchive
           \* the watermark folder once the watermark is saved and converted
           saved  == Staged(RemoveFiles(files, IF conv THEN {src} ELSE {}), {wm}, j, NoArchive)
           reject(code, error, fs) ==
               /\ http' = [code |-> code, error |-> error]
               /\ files' = fs
               /\ UNCHANGED <<job, state, queued>>
       IN  IF ~check_disk_space(env.free_gb)
           THEN /\ http' = [code |-> 500, error |-> "Espacio insuficiente",
                            free_gb |-> env.free_gb]
                /\ UNCHANGED <<files, job, state, queued>>
           ELSE IF req.wm = "missing"
           THEN reject(400, "Debes subir una marca de agua.", files)
           ELSE IF ~allowed_file_img(req.wm)
           THEN reject(400, "Marca de agua no valida.", files)
           ELSE IF env.raises = "save_watermark"
           THEN reject(500, "Error interno", Staged(files, {first}, j, NoArchive))
           ELSE IF kind = "none"
           THEN reject(400, "Debes subir un video o ZIP.", RemoveFiles(saved, {wm}))
           ELSE IF ~okname
           THEN reject(400, IF kind = "video" THEN "Formato de video no permitido."
                            ELSE "El archivo debe ser un .zip.",
                       RemoveFiles(saved, {wm}))
           ELSE IF env.raises \in {"save_upload", "apply_async"}
           THEN reject(500, "Error interno", Staged(saved, {up}, j, arch))
           ELSE /\ http' = [code |-> 202, task_id |-> j, type |-> kind]
                /\ files' = WriteFile(saved, up, j, arch)
                /\ job' = [job EXCEPT ![j] =
                             [kind |-> kind, t |-> now, wm |-> wm,
                              transparency |-> Transparency(req.transparency),
                              coords |-> Coords(req.position)]]
                /\ state' = [state EXCEPT ![j] = "PENDING"]
                /\ queued' = [queued EXCEPT ![j] = TRUE]
    /\ UNCHANGED <<gate, now, dirs, scratch, outputs, meta, retries, pc, attempt, executions>>

\* a request that passes every validation, in an environment where nothing fails
GoodRequest == [wm |-> "png", transparency |-> Missing, position |-> Missing,
                video |-> "missing", zip |-> "missing", arch |-> NoArchive]
GoodEnv == [free_gb |-> IntakeDiskFloor + 1, convert_ok |-> TRUE, raises |-> "none"]

UploadVideo == upload_files([GoodRequest EXCEPT !.video = "mp4"], GoodEnv)

UploadZip ==
    \E arch \in ArchiveChoices :
        upload_files([GoodRequest EXCEPT !.zip = "zip", !.arch = arch], GoodEnv)

\* ------------------------------------------------------------ the worker

\* A worker takes the task's message from the broker and calls the task
\* function (the backend state is not touched: task_track_started is off).
\* Both tasks begin with check_system_resources() and
\* "if not all([disk_ok, mem_ok, cpu_ok]): raise Exception(error_msg)".
Admit(j, measurements) ==
    /\ queued[j]
    /\ pc[j] = "idle"
    /\ queued' = [queued EXCEPT ![j] = FALSE]
    /\ executions' = [executions EXCEPT ![j] = @ + 1]
    /\ \E m \in measurements :
         LET r == check_system_resources(m)
         IN  /\ gate' = [gate EXCEPT ![j] = [called |-> TRUE, met |-> m, r |-> r]]
             /\ IF r.disk_ok /\ r.mem_ok /\ r.cpu_ok
                THEN /\ pc' = [pc EXCEPT ![j] =
                                 IF job[j].kind = "video" THEN "v_transform" ELSE "z_open"]
                     /\ exc' = exc
                ELSE /\ pc' = [pc EXCEPT ![j] =
                                 IF job[j].kind = "video" THEN "v_except" ELSE "retry"]
                     /\ exc' = [exc EXCEPT ![j] = ResourceError(r)]
    /\ UNCHANGED <<http, now, njobs, job, disk, backend, retries,
                   ts, vfiles, idx, pcount, pany, outcome, extracts, deletes>>

Start(j) == Admit(j, Measurements)

\* process_video_task: agregar_marca_de_agua_transparente(video_path, ...).
\* The engine fails when an input is missing.
VTransform(j) ==
    /\ pc[j] = "v_transform"
    /\ \E engine_ok \in BOOLEAN :
         LET inputs  == Exists(InPath(j)) /\ Exists(WmPath(j))
             success == inputs /\ engine_ok
         IN  /\ outputs' = IF success THEN WriteOutput(outputs, OutPath(j), j, TRUE, {})
                           ELSE outputs
             /\ pany' = [pany EXCEPT ![j] = success]
    /\ pc' = [pc EXCEPT ![j] = "v_cleanup"]
    /\ UNCHANGED <<gate, http, now, njobs, job, files, dirs, scratch, backend, retries, queued,
                   ts, vfiles, idx, pcount, exc, outcome, executions, extracts, deletes>>

\* process_video_task: "Limpiar archivos temporales", then return or raise
VCleanup(j) ==
    /\ pc[j] = "v_cleanup"
    /\ files' = RemoveFiles(files, {InPath(j), WmPath(j)})
    /\ IF pany[j]
       THEN /\ outcome' = [outcome EXCEPT ![j] = "SUCCESS"]
            /\ pc' = [pc EXCEPT ![j] = "end"]
            /\ exc' = exc
       ELSE /\ exc' = [exc EXCEPT ![j] = Exc("Error al procesar el video con FFmpeg")]
            /\ pc' = [pc EXCEPT ![j] = "v_except"]
            /\ outcome' = outcome
    /\ UNCHANGED <<gate, http, now, njobs, job, dirs, scratch, outputs, backend, retries, queued,
                   ts, vfiles, idx, pcount, pany, executions, extracts, deletes>>

\* process_video_task: the except clause's "Limpieza exhaustiva"
VExcept(j) ==
    /\ pc[j] = "v_except"
    /\ files' = RemoveFiles(files, VideoExceptRemoves(j))
    /\ pc' = [pc EXCEPT ![j] = "retry"]
    /\ UNCHANGED <<gate, http, now, njobs, job, dirs, scratch, outputs, backend, retries, queued,
                   attempt, executions>>

\* both tasks: raise self.retry(exc=e, countdown=300, max_retries=2).  The
\* message sent waits out its countdown, so it is taken only after this
\* attempt has ended (Start).
Retry(j) ==
    /\ pc[j] = "retry"
    /\ queued' = [queued EXCEPT ![j] = RetrySends(retries[j])]
    /\ IF RetriesExceeded(retries[j])
       THEN /\ outcome' = [outcome EXCEPT ![j] = "FAILURE"]
            /\ retries' = retries
       ELSE /\ outcome' = [outcome EXCEPT ![j] = "RETRY"]
            /\ retries' = [retries EXCEPT ![j] = @ + 1]
    /\ pc' = [pc EXCEPT ![j] = IF job[j].kind = "video" THEN "end" ELSE "z_finally"]
    /\ UNCHANGED <<gate, http, now, njobs, job, disk, backend,
                   ts, vfiles, idx, pcount, pany, exc, executions, extracts, deletes>>

\* The task function has returned or raised: the worker stores the result
\* (SUCCESS with the returned path, RETRY or FAILURE with the exception).
\* After SUCCESS and FAILURE no message of the task is left.
End(j) ==
    /\ pc[j] = "end"
    /\ job' = [job EXCEPT ![j] = IF outcome[j] = "RETRY" THEN @ ELSE NoJob]
    /\ state' = [state EXCEPT ![j] = outcome[j]]
    /\ meta' = [meta EXCEPT ![j] =
                  IF outcome[j] = "SUCCESS"
                  THEN [tag |-> "result", result |-> OutPath(j)]
                  ELSE [tag |-> "exc", exc |-> exc[j]]]
    /\ pc' = [pc EXCEPT ![j] = "idle"]
    /\ ts' = [ts EXCEPT ![j] = -1]
    /\ vfiles' = [vfiles EXCEPT ![j] = <<>>]
    /\ idx' = [idx EXCEPT ![j] = 0]
    /\ pcount' = [pcount EXCEPT ![j] = 0]
    /\ pany' = [pany EXCEPT ![j] = FALSE]
    /\ exc' = [exc EXCEPT ![j] = NoExc]
    /\ outcome' = [outcome EXCEPT ![j] = ""]
    /\ extracts' = [extracts EXCEPT ![j] = 0]
    /\ deletes' = [deletes EXCEPT ![j] = 0]
    /\ gate' = [gate EXCEPT ![j] = NoGate]
    /\ UNCHANGED <<http, now, njobs, disk, retries, queued, executions>>

\* process_zip_task: timestamp = str(int(time.time())), the two makedirs,
\* zipfile.ZipFile(zip_path, 'r') and the list video_files
ZOpen(j) ==
    /\ pc[j] = "z_open"
    /\ ts' = [ts EXCEPT ![j] = now]
    /\ dirs' = [d \in DOMAIN dirs |->
                  IF d[2] = now /\ dirs[d] = 0 THEN j ELSE dirs[d]]
    /\ IF Exists(InPath(j)) /\ ArchiveAt(InPath(j)).ok
       THEN /\ vfiles' = [vfiles EXCEPT ![j] = VideoFiles(ArchiveAt(InPath(j)).members)]
            /\ idx' = [idx EXCEPT ![j] = 1]
            /\ pc' = [pc EXCEPT ![j] = "z_loop"]
            /\ exc' = exc
       ELSE /\ exc' = [exc EXCEPT ![j] =
                         IF Exists(InPath(j)) THEN Exc("BadZipFile")
                         ELSE Exc("FileNotFoundError")]
            /\ pc' = [pc EXCEPT ![j] = "retry"]
            /\ UNCHANGED <<vfiles, idx>>
    /\ UNCHANGED <<gate, http, now, njobs, job, files, scratch, outputs, backend, retries, queued,
                   pcount, pany, outcome, executions, extracts, deletes>>

\* process_zip_task: one turn of the for loop up to the extraction:
\* self.update_state(state='PROGRESS', ...), then "Extraer archivo":
\* open(extracted_path, 'wb') and the copy
ZLoop(j) ==
    /\ pc[j] = "z_loop"
    /\ idx[j] <= Len(vfiles[j])
    /\ IF BaseName(vfiles[j][idx[j]]) = EmptyName
       THEN /\ idx' = [idx EXCEPT ![j] = @ + 1]
            /\ UNCHANGED <<pc, backend, scratch, extracts, exc>>
       ELSE /\ state' = [state EXCEPT ![j] = "PROGRESS"]
            /\ meta' = [meta EXCEPT ![j] =
                          [tag |-> "progress",
                           current |-> pcount[j],
                           total |-> Len(vfiles[j]),
                           status |-> BaseName(vfiles[j][idx[j]]),
                           percent |-> Percent(pcount[j], Len(vfiles[j]))]]
            /\ idx' = idx
            /\ IF DirExists("unzip", ts[j])
               THEN /\ scratch' = WriteScratch(scratch, "unzip", ts[j],
                                               BaseName(vfiles[j][idx[j]]), j, TRUE)
                    /\ extracts' = [extracts EXCEPT ![j] = @ + 1]
                    /\ pc' = [pc EXCEPT ![j] = "z_transform"]
                    /\ exc' = exc
               ELSE /\ exc' = [exc EXCEPT ![j] = Exc("FileNotFoundError")]
                    /\ pc' = [pc EXCEPT ![j] = "retry"]
                    /\ UNCHANGED <<scratch, extracts>>
    /\ UNCHANGED <<gate, http, now, njobs, job, files, dirs, outputs, retries, queued,
                   ts, vfiles, pcount, pany, outcome, executions, deletes>>

\* process_zip_task: "Procesar video": the transform of the extracted member
ZTransform(j) ==
    /\ pc[j] = "z_transform"
    /\ \E engine_ok \in BOOLEAN, partial \in BOOLEAN :
         LET base    == BaseName(vfiles[j][idx[j]])
             inputs  == /\ ScratchExists("unzip", ts[j], base)
                        /\ Exists(WmPath(j))
                        /\ DirExists("output", ts[j])
             success == inputs /\ engine_ok
         IN  /\ scratch' = IF success
                           THEN WriteScratch(scratch, "output", ts[j], base, j, TRUE)
                           ELSE IF inputs /\ partial
                                THEN WriteScratch(scratch, "output", ts[j], base, j, FALSE)
                                ELSE scratch
             /\ pany' = [pany EXCEPT ![j] = @ \/ success]
             /\ pcount' = [pcount EXCEPT ![j] = IF success THEN @ + 1 ELSE @]
    /\ pc' = [pc EXCEPT ![j] = "z_remove"]
    /\ UNCHANGED <<gate, http, now, njobs, job, files, dirs, outputs, backend, retries, queued,
                   ts, vfiles, idx, exc, outcome, executions, extracts, deletes>>

\* process_zip_task: "Limpiar inmediatamente", and the loop goes on
ZRemove(j) ==
    /\ pc[j] = "z_remove"
    /\ LET base == BaseName(vfiles[j][idx[j]])
       IN  IF ScratchExists("unzip", ts[j], base)
           THEN /\ scratch' = {f \in scratch :
                                 ~(f.d = "unzip" /\ f.t = ts[j] /\ f.name = base)}
                /\ deletes' = [deletes EXCEPT ![j] = @ + 1]
           ELSE UNCHANGED <<scratch, deletes>>
    /\ idx' = [idx EXCEPT ![j] = @ + 1]
    /\ pc' = [pc EXCEPT ![j] = "z_loop"]
    /\ UNCHANGED <<gate, http, now, njobs, job, files, dirs, outputs, backend, retries, queued,
                   ts, vfiles, pcount, pany, exc, outcome, executions, extracts>>

\* the files shutil.make_archive finds under temp_output
Collected(t) == {[name |-> f.name, o |-> f.o, ok |-> f.ok] :
                    f \in {g \in scratch : g.d = "output" /\ g.t = t}}

\* process_zip_task: "if not processed_any: raise", shutil.make_archive and
\* the return.  Over a root_dir that no longer exists make_archive raises
\* or writes an empty archive, depending on the Python version.
ZAfter(j) ==
    /\ pc[j] = "z_loop"
    /\ idx[j] > Len(vfiles[j])
    /\ IF ~pany[j]
       THEN /\ exc' = [exc EXCEPT ![j] = Exc("No se encontraron videos validos en el ZIP.")]
            /\ pc' = [pc EXCEPT ![j] = "retry"]
            /\ UNCHANGED <<outputs, outcome>>
       ELSE \E raises \in BOOLEAN :
              IF ~DirExists("output", ts[j]) /\ raises
              THEN /\ exc' = [exc EXCEPT ![j] = Exc("FileNotFoundError")]
                   /\ pc' = [pc EXCEPT ![j] = "retry"]
                   /\ UNCHANGED <<outputs, outcome>>
              ELSE /\ outputs' = WriteOutput(outputs, OutPath(j), j, TRUE, Collected(ts[j]))
                   /\ outcome' = [outcome EXCEPT ![j] = "SUCCESS"]
                   /\ pc' = [pc EXCEPT ![j] = "z_finally"]
                   /\ exc' = exc
    /\ UNCHANGED <<gate, http, now, njobs, job, files, dirs, scratch, backend, retries, queued,
                   ts, vfiles, idx, pcount, pany, executions, extracts, deletes>>

\* process_zip_task: the finally clause's "LIMPIEZA EXHAUSTIVA"
ZFinally(j) ==
    /\ pc[j] = "z_finally"
    /\ files' = RemoveFiles(files, {InPath(j), WmPath(j)})
    /\ dirs' = [d \in DOMAIN dirs |->
                  IF ts[j] # -1 /\ d[2] = ts[j] /\ d[1] \in ZipFinallyDirs THEN 0 ELSE dirs[d]]
    /\ scratch' = {f \in scratch : ~(ts[j] # -1 /\ f.t = ts[j] /\ f.d \in ZipFinallyDirs)}
    /\ pc' = [pc EXCEPT ![j] = "end"]
    /\ UNCHANGED <<gate, http, now, njobs, job, outputs, backend, retries, queued, attempt, executions>>

Next ==
    \/ Tick
    \/ UploadVideo
    \/ UploadZip
    \/ \E j \in Jobs : Start(j)
    \/ \E j \in Jobs : VTransform(j)
    \/ \E j \in Jobs : VCleanup(j)
    \/ \E j \in Jobs : VExcept(j)
    \/ \E j \in Jobs : Retry(j)
    \/ \E j \in Jobs : End(j)
    \/ \E j \in Jobs : ZOpen(j)
    \/ \E j \in Jobs : ZLoop(j)
    \/ \E j \in Jobs : ZTransform(j)
    \/ \E j \in Jobs : ZRemove(j)
    \/ \E j \in Jobs : ZAfter(j)
    \/ \E j \in Jobs : ZFinally(j)

Spec == Init /\ [][Next]_vars

\* ------------------------------------------------------ status endpoint

\* task_status(task_id): the JSON answered for the backend's state of the task
\* (an id the backend does not know reads as PENDING)
TaskStatus(j) ==
    IF state[j] \in {"NONE", "PENDING"}
    THEN [state |-> "PENDING", status |-> "En cola..."]
    ELSE IF state[j] = "PROGRESS"
    THEN [state |-> "PROGRESS", status |-> meta[j].status, progress |-> meta[j].percent,
          current |-> meta[j].current, total |-> meta[j].total]
    ELSE IF state[j] = "SUCCESS"
    THEN [state |-> "SUCCESS", result |-> meta[j].result, status |-> "Completado"]
    ELSE [state |-> "FAILURE", status |-> meta[j].exc]

\* ------------------------------------------- the progress computation alone
\* PctSpec: task 1 is a batch-archive task in its first attempt, with an
\* archive of t allow-listed members of which the first c were transformed;
\* the one step is the next turn of the loop, which reports the progress.

BigArchive(t) == [ok |-> TRUE, members |-> [i \in 1..t |-> FileMember("d1", i, "mp4")]]

PctInit ==
    \E t \in 1..MaxTotal : \E c \in 0..(t - 1) :
        /\ now = 0
        /\ njobs = 1
        /\ job = [j \in Jobs |-> IF j = 1 THEN [NoJob EXCEPT !.kind = "zip"] ELSE NoJob]
        /\ files = {[p |-> <<"watermark", 0>>, o |-> 1, arch |-> NoArchive],
                    [p |-> <<"zip", 0>>, o |-> 1, arch |-> BigArchive(t)]}
        /\ dirs = [d \in {"unzip", "output"} \X Times |-> IF d[2] = 0 THEN 1 ELSE 0]
        /\ scratch = {[d |-> "output", t |-> 0, name |-> [stem |-> i, ext |-> "mp4"],
                       o |-> 1, ok |-> TRUE] : i \in 1..c}
        /\ outputs = {}
        /\ state = [j \in Jobs |-> IF j = 1 THEN (IF c = 0 THEN "PENDING" ELSE "PROGRESS")
                                   ELSE "NONE"]
        /\ meta = [j \in Jobs |->
                     IF j = 1 /\ c > 0
                     THEN [tag |-> "progress", current |-> c - 1, total |-> t,
                           status |-> [stem |-> c, ext |-> "mp4"],
                           percent |-> Percent(c - 1, t)]
                     ELSE NoMeta]
        /\ retries = [j \in Jobs |-> 0]
        /\ queued = [j \in Jobs |-> FALSE]
        /\ pc = [j \in Jobs |-> IF j = 1 THEN "z_loop" ELSE "idle"]
        /\ ts = [j \in Jobs |-> IF j = 1 THEN 0 ELSE -1]
        /\ vfiles = [j \in Jobs |-> IF j = 1 THEN BigArchive(t).members ELSE <<>>]
        /\ idx = [j \in Jobs |-> IF j = 1 THEN c + 1 ELSE 0]
        /\ pcount = [j \in Jobs |-> IF j = 1 THEN c ELSE 0]
        /\ pany = [j \in Jobs |-> j = 1 /\ c > 0]
        /\ exc = [j \in Jobs |-> NoExc]
        /\ outcome = [j \in Jobs |-> ""]
        /\ executions = [j \in Jobs |-> IF j = 1 THEN 1 ELSE 0]
        /\ extracts = [j \in Jobs |-> IF j = 1 THEN c ELSE 0]
        /\ deletes = [j \in Jobs |-> IF j = 1 THEN c ELSE 0]
        /\ http = [code |-> 202, task_id |-> 1, type |-> "zip"]
        /\ gate = [j \in Jobs |->
                     IF j = 1
                     THEN [called |-> TRUE, met |-> GoodMeasurement,
                           r |-> check_system_resources(GoodMeasurement)]
                     ELSE NoGate]

PctNext == ZLoop(1)

PctSpec == PctInit /\ [][PctNext]_vars

\* ------------------------------------------------------- the intake alone
\* IntakeSpec: calls of upload_files with every kind of request, no worker
\* running: requests that differ from a good one in the files they carry, in
\* the transparency or in the position, and good requests in every
\* environment.

TransparencyInputs ==
    {Missing, [k |-> "text"], NaN, PosInf, NegInf}
        \cup {Num(n) : n \in {-50, 0, 5, TransparencyFloor, TransparencyFloor + 1,
                              TransparencyDefault, TransparencyCeiling,
                              TransparencyCeiling + 1, 250}}

PositionInputs ==
    {Missing} \cup {[k |-> "name", v |-> p] : p \in DOMAIN POSITION_MAP \cup {"middle", ""}}

SomeArchive == [ok |-> TRUE, members |-> <<FileMember("d1", 1, "mp4")>>]

FileVariants ==
    {[GoodRequest EXCEPT !.wm = w, !.video = v, !.zip = z, !.arch = SomeArchive] :
        w \in {"missing", "txt", "png", "jpg"},
        v \in {"missing", "mp4", "txt"},
        z \in {"missing", "zip", "ZIP", "rar"}}

Envs == [free_gb : {IntakeDiskFloor, IntakeDiskFloor + 1},
         convert_ok : BOOLEAN,
         raises : {"none", "save_watermark", "save_upload", "apply_async"}]

IntakeCalls ==
    {<<r, GoodEnv>> : r \in FileVariants}
        \cup {<<[GoodRequest EXCEPT !.video = "mp4", !.transparency = t], GoodEnv>> :
                 t \in TransparencyInputs}
        \cup {<<[GoodRequest EXCEPT !.zip = "zip", !.arch = SomeArchive, !.position = q],
                GoodEnv>> : q \in PositionInputs}
        \cup {<<[GoodRequest EXCEPT !.wm = w, !.video = "mp4"], e>> :
                 w \in {"png", "jpg"}, e \in Envs}
        \cup {<<[GoodRequest EXCEPT !.zip = "zip", !.arch = SomeArchive], e>> : e \in Envs}

Intake == \E c \in IntakeCalls : upload_files(c[1], c[2])

IntakeNext == Tick \/ Intake

IntakeSpec == Init /\ [][IntakeNext]_vars

\* ------------------------------------------------- the admission alone
\* GateSpec: one worker runs the first task through its attempts, and
\* check_system_resources meets every measurement, on each side of each limit,
\* and the failing OS query.

GateStart(j) == Admit(j, AllMeasurements)

GateNext ==
    \/ UploadVideo
    \/ UploadZip
    \/ GateStart(1)
    \/ VTransform(1) \/ VCleanup(1) \/ VExcept(1) \/ Retry(1) \/ End(1)
    \/ ZOpen(1) \/ ZLoop(1) \/ ZTransform(1) \/ ZRemove(1) \/ ZAfter(1) \/ ZFinally(1)

GateSpec == Init /\ [][GateNext]_vars

\* ------------------------------------------------------- status polling
\* GET /status/<task_id>: the answer is kept in http. backend_ok is FALSE
\* when reading the result backend raises, which the handler answers with
\* the state ERROR.

PollForgets(j, backend_ok) ==
    /\ http' = [code |-> 200, task_id |-> j,
                payload |-> IF backend_ok THEN TaskStatus(j) ELSE [state |-> "ERROR"]]
    /\ state' = [state EXCEPT ![j] = IF @ \in {"SUCCESS", "FAILURE"} THEN "NONE" ELSE @]
    /\ UNCHANGED <<now, njobs, job, files, dirs, scratch, outputs, meta, retries, queued,
                   pc, ts, vfiles, idx, pcount, pany, exc, outcome, executions, extracts,
                   deletes, gate>>

Poll(j, backend_ok) ==
    /\ http' = [code |-> 200, task_id |-> j,
                payload |-> IF backend_ok THEN TaskStatus(j) ELSE [state |-> "ERROR"]]
    /\ UNCHANGED <<now, njobs, job, files, dirs, scratch, outputs, state, meta, retries,
                   queued, pc, ts, vfiles, idx, pcount, pany, exc, outcome, executions,
                   extracts, deletes, gate>>

task_status == \E j \in Jobs, backend_ok \in BOOLEAN : Poll(j, backend_ok)

\* an archive of one member is uploaded
PollUploadZip ==
    upload_files([GoodRequest EXCEPT !.zip = "zip", !.arch = SomeArchive], GoodEnv)

\* PollSpec: requests and attempts on videos and archives of one member, with polls of every task id between any two steps.
PollNext ==
    \/ Tick
    \/ UploadVideo
    \/ PollUploadZip
    \/ \E j \in Jobs : Start(j)
    \/ \E j \in Jobs : VTransform(j)
    \/ \E j \in Jobs : VCleanup(j)
    \/ \E j \in Jobs : VExcept(j)
    \/ \E j \in Jobs : Retry(j)
    \/ \E j \in Jobs : End(j)
    \/ \E j \in Jobs : ZOpen(j)
    \/ \E j \in Jobs : ZLoop(j)
    \/ \E j \in Jobs : ZTransform(j)
    \/ \E j \in Jobs : ZRemove(j)
    \/ \E j \in Jobs : ZAfter(j)
    \/ \E j \in Jobs : ZFinally(j)
    \/ task_status

PollSpec == Init /\ [][PollNext]_vars

\* ------------------------------------------------------------------ claims

Terminal(j) == state[j] \in {"SUCCESS", "FAILURE"}

\* the attempt of task j has read its archive to the end
LoopDone(j) == idx[j] >= 1 /\ idx[j] > Len(vfiles[j])

C2_RetryBudget ==
    \A j \in Jobs :
        /\ executions[j] <= MaxRetries + 1
        /\ (pc[j] = "idle" /\ state[j] = "RETRY")
              => (queued[j] /\ executions[j] <= MaxRetries)
        /\ (pc[j] = "idle" /\ executions[j] = MaxRetries + 1) => Terminal(j)
        /\ (pc[j] = "idle" /\ state[j] = "FAILURE") => executions[j] = MaxRetries + 1

\* a task has terminally failed after the last execution of its budget
C2_Witness ==
    \E j \in Jobs : state[j] = "FAILURE" /\ executions[j] = MaxRetries + 1 /\ ~queued[j]

\* C3: a batch-archive attempt that has read to the end an archive with no
\* allow-listed member, in the task's first execution, fails the task for
\* good: the outcome is FAILURE, no retry is sent and none is consumed.
C3_ZeroEligibleFailsAtOnce ==
    \A j \in Jobs :
        (pc[j] = "end" /\ LoopDone(j) /\ Len(vfiles[j]) = 0 /\ executions[j] = 1)
            => (outcome[j] = "FAILURE" /\ ~queued[j] /\ retries[j] = 0)

\* C4: an attempt that follows a rejection by the resource gate and passes the
\* gate finds the task's upload and watermark still on disk.
C4_GateRetryHasInputs ==
    \A j \in Jobs :
        (/\ state[j] = "RETRY"
         /\ meta[j].exc.msg = "Recursos insuficientes"
         /\ pc[j] \in {"v_transform", "z_open"})
            => (Exists(InPath(j)) /\ Exists(WmPath(j)))

\* C5: nothing moves a task that is in SUCCESS or FAILURE: no attempt of it
\* starts or is under way, no message of it is in the broker, and its state
\* and its result or error stay as they are.
C5_TerminalIsFinal ==
    [][\A j \in Jobs :
          Terminal(j) => /\ state'[j] = state[j]
                         /\ meta'[j] = meta[j]
                         /\ executions'[j] = executions[j]
                         /\ pc[j] = "idle" /\ pc'[j] = "idle"
                         /\ ~queued[j] /\ ~queued'[j]]_vars

\* one task is terminal while an attempt of another one is under way
C5_Witness ==
    \E j \in Jobs, k \in Jobs : Terminal(j) /\ pc[k] \notin {"idle", "end"}

\* C6: the status endpoint answers FAILURE for a task only when the task has
\* terminally failed.
C6_FailureIsFinal ==
    \A j \in Jobs : TaskStatus(j).state = "FAILURE" => state[j] = "FAILURE"

\* C7: two distinct tasks never have the same watermark path nor the same
\* scratch directories, and a scratch directory never holds a file of a task
\* other than the one that created the directory.
C7_ExclusiveOwnership ==
    /\ \A j \in Jobs, k \in Jobs :
          (j # k /\ job[j].kind # "none" /\ job[k].kind # "none")
              => /\ WmPath(j) # WmPath(k)
                 /\ (ts[j] # -1 /\ ts[k] # -1) => ts[j] # ts[k]
    /\ \A f \in scratch : dirs[<<f.d, f.t>>] = f.o

\* C8: when an attempt has read its archive to the end, it has extracted and
\* has deleted as many files as the archive has non-directory members with an
\* allow-listed extension, and the extraction directories hold no file whose
\* name is empty or not allow-listed.
C8_ExtractDeleteCycles ==
    /\ \A j \in Jobs :
          (pc[j] = "z_loop" /\ LoopDone(j))
              => /\ extracts[j] = Len(vfiles[j])
                 /\ deletes[j] = Len(vfiles[j])
    /\ \A f \in scratch :
          f.d = "unzip" => (f.name # EmptyName /\ allowed_file_video(f.name))

\* C9: when a batch-archive attempt whose N >= 1 transforms all succeeded has
\* written its output archive, the progress it reported has total = N and the
\* output archive holds exactly N files, one for each eligible member, named
\* after the member's base filename.
C9_OutputHasAllMembers ==
    \A j \in Jobs :
        (/\ pc[j] = "z_finally" /\ outcome[j] = "SUCCESS"
         /\ Len(vfiles[j]) >= 1 /\ pcount[j] = Len(vfiles[j]))
            => /\ state[j] = "PROGRESS" /\ meta[j].total = Len(vfiles[j])
               /\ \E f \in outputs :
                     /\ f.p = OutPath(j)
                     /\ Cardinality(f.content) = Len(vfiles[j])
                     /\ {c.name : c \in f.content}
                           = {BaseName(vfiles[j][i]) : i \in 1..Len(vfiles[j])}

\* C10: every PROGRESS update of a batch-archive task reports
\* 0 <= current <= total, total > 0 and percent = floor(current * 100 / total),
\* so 0 <= percent <= 100, and reports neither a current nor a percent below
\* those of the update before it.
C10_ProgressUpdates ==
    [][\A j \in Jobs :
          (state'[j] = "PROGRESS" /\ <<state'[j], meta'[j]>> # <<state[j], meta[j]>>)
              => /\ 0 <= meta'[j].current /\ meta'[j].current <= meta'[j].total
                 /\ meta'[j].total > 0
                 /\ meta'[j].percent = (meta'[j].current * 100) \div meta'[j].total
                 /\ 0 <= meta'[j].percent /\ meta'[j].percent <= 100
                 /\ state[j] = "PROGRESS"
                       => /\ meta[j].current <= meta'[j].current
                          /\ meta[j].percent <= meta'[j].percent]_vars

\* the request fails a validation of the intake: no valid watermark, neither
\* a video nor an archive, a video whose extension is not allow-listed, or an
\* archive that is not named .zip
InvalidRequest(req) ==
    \/ req.wm = "missing"
    \/ ~allowed_file_img(req.wm)
    \/ (req.video = "missing" /\ req.zip = "missing")
    \/ (req.video # "missing" /\ ~allowed_file_video([stem |-> 1, ext |-> req.video]))
    \/ (req.video = "missing" /\ req.zip # "missing" /\ Lower(req.zip) # "zip")

\* this step has enqueued exactly one task, the one whose id is answered
EnqueuedOne ==
    /\ http'.task_id = njobs'
    /\ queued'[njobs'] /\ state'[njobs'] = "PENDING" /\ job'[njobs'].kind # "none"
    /\ \A k \in Jobs \ {njobs'} :
          queued'[k] = queued[k] /\ state'[k] = state[k] /\ job'[k] = job[k]

\* C11: a call of upload_files enqueues a task if and only if it answers 202,
\* and then exactly one, whose id it answers; with free disk at or below the
\* floor it answers 500 with the measured free space, and with enough disk a
\* request that fails a validation is answered 400.
C11_EnqueueIff202 ==
    [][\A c \in IntakeCalls :
          upload_files(c[1], c[2])
              => /\ http'.code \in {202, 400, 500}
                 /\ IF http'.code = 202
                    THEN EnqueuedOne
                    ELSE UNCHANGED <<job, queued, state>>
                 /\ c[2].free_gb <= IntakeDiskFloor
                       => (http'.code = 500 /\ http'.free_gb = c[2].free_gb)
                 /\ (c[2].free_gb > IntakeDiskFloor /\ InvalidRequest(c[1]))
                       => http'.code = 400]_vars

\* a call was answered 400 after another one had enqueued a task
C11_Witness == http.code = 400 /\ njobs = MaxJobs /\ queued[1]

\* the OS could be queried and the three measured values are within limits
WithinLimits(m) ==
    /\ ~m.oserror
    /\ m.free_gb > WorkerDiskFloor /\ m.mem10 > WorkerMemFloor10 /\ m.cpu < WorkerCpuCeiling

\* C12: an attempt is at or past its transform or its first extraction only
\* after its three checks passed on values within the limits; an attempt whose
\* checks did not all pass has raised the error that carries the values the
\* check returned and runs no transform; and a failing OS query makes the
\* three checks not ok.
C12_WorkerAdmission ==
    \A j \in Jobs :
        /\ (pc[j] \in {"v_transform", "v_cleanup", "z_open", "z_loop", "z_transform", "z_remove"}
              \/ extracts[j] > 0 \/ pany[j])
              => (gate[j].called /\ WithinLimits(gate[j].met)
                    /\ gate[j].r.disk_ok /\ gate[j].r.mem_ok /\ gate[j].r.cpu_ok)
        /\ (gate[j].called /\ ~WithinLimits(gate[j].met))
              => /\ pc[j] \in {"v_except", "retry", "z_finally", "end"}
                 /\ exc[j].msg = "Recursos insuficientes"
                 /\ exc[j].measured = <<gate[j].r.free_gb, gate[j].r.mem10, gate[j].r.cpu>>
                 /\ ~gate[j].met.oserror
                       => exc[j].measured
                             = <<gate[j].met.free_gb, gate[j].met.mem10, gate[j].met.cpu>>
        /\ (gate[j].called /\ gate[j].met.oserror)
              => (~gate[j].r.disk_ok /\ ~gate[j].r.mem_ok /\ ~gate[j].r.cpu_ok)

\* an attempt whose OS query failed is about to retry, and an attempt that
\* met only the memory below its limit has been refused
C12_Witness ==
    \E j \in Jobs :
        /\ gate[j].called /\ gate[j].met.oserror /\ pc[j] = "retry"
        /\ state[j] = "RETRY" /\ meta[j].exc.measured = <<WorkerDiskFloor + 1, WorkerMemFloor10,
                                                         WorkerCpuCeiling - 1>>

\* C13: a call that enqueues a task hands it, for a transparency value that
\* float() parses, min(1.0, max(0.1, input)): the floor for an input below
\* the floor, 1 for an input above 1, always a number in [0.1, 1.0]; and for
\* a missing or unparsable value the default 0.5.
C13_TransparencyClamp ==
    [][\A c \in IntakeCalls :
          (upload_files(c[1], c[2]) /\ http'.code = 202)
              => LET input == c[1].transparency
                     value == job'[njobs'].transparency
                     floor == Num(TransparencyFloor)
                     ceiling == Num(TransparencyCeiling)
                 IN  IF input = Missing \/ ParseFloat(input).k = "error"
                     THEN value = Num(TransparencyDefault)
                     ELSE /\ value = PyMin(ceiling, PyMax(floor, ParseFloat(input)))
                          /\ FloatLess(ParseFloat(input), floor) => value = floor
                          /\ FloatLess(ceiling, ParseFloat(input)) => value = ceiling
                          /\ value.k = "num"
                          /\ ~FloatLess(value, floor) /\ ~FloatLess(ceiling, value)]_vars

\* C14: the five position names resolve to five different pairs of
\* coordinate expressions; a valid request is enqueued whatever its position
\* field, with the pair of its name if that is one of the five and with the
\* pair of bottom_right for every other name and for a missing field.
C14_PositionResolution ==
    [][/\ DOMAIN POSITION_MAP = {"top_left", "top_right", "bottom_left", "bottom_right", "center"}
       /\ \A p, q \in DOMAIN POSITION_MAP : p # q => POSITION_MAP[p] # POSITION_MAP[q]
       /\ \A c \in IntakeCalls :
             (upload_files(c[1], c[2]) /\ ~InvalidRequest(c[1]) /\ c[2] = GoodEnv)
                 => LET position == c[1].position
                        coords == job'[njobs'].coords
                    IN  /\ http'.code = 202
                        /\ DOMAIN coords = {"x", "y"}
                        /\ IF position # Missing /\ position.v \in DOMAIN POSITION_MAP
                           THEN coords = POSITION_MAP[position.v]
                           ELSE coords = POSITION_MAP["bottom_right"]]_vars

\* two requests were enqueued, one with the pair of center and one with the
\* pair of the default
C14_Witness ==
    /\ queued[1] /\ queued[2] /\ http.code = 202
    /\ job[1].coords = POSITION_MAP["center"]
    /\ job[2].coords = POSITION_MAP["bottom_right"]

C16_CleanupBeforeRetry ==
    [][\A j \in Jobs :
          (\/ pc[j] = "retry" /\ queued'[j]
           \/ state[j] # "FAILURE" /\ state'[j] = "FAILURE")
              => /\ \A f \in files' : f.o # j
                 /\ \A d \in DOMAIN dirs' : dirs'[d] # j
                 /\ \A f \in scratch' : f.o # j]_vars

\* the files in the extraction directory of the running attempt of task j
Extracted(j) == {f \in scratch : f.d = "unzip" /\ f.t = ts[j]}

\* C17: while an attempt of a batch-archive task runs, its extraction
\* directory holds at most one file; it holds none when the attempt is about
\* to extract a member or has read its archive to the end, so that every
\* extracted file is deleted after its own transform, successful or not, and
\* before the next extraction.
C17_BoundedExtraction ==
    \A j \in Jobs :
        (job[j].kind = "zip" /\ ts[j] # -1)
            => /\ Cardinality(Extracted(j)) <= 1
               /\ pc[j] \in {"z_loop", "z_finally", "retry", "end"} => Extracted(j) = {}

\* C18: an attempt of a batch-archive task that has left its try block
\* returns its output archive exactly when at least one member was
\* transformed successfully, and the archive it has written holds only
\* outputs of successful transforms, nothing a failed transform wrote to the
\* output directory.
C18_PartialBatchFailure ==
    \A j \in Jobs :
        (job[j].kind = "zip" /\ pc[j] \in {"z_finally", "end"})
            => /\ outcome[j] = "SUCCESS" <=> pany[j]
               /\ outcome[j] = "SUCCESS"
                     => \E f \in outputs :
                           /\ f.p = OutPath(j) /\ f.o = j
                           /\ \A c \in f.content : c.ok

\* C19: a call of upload_files that does not enqueue a task (answered 400
\* or 500) leaves none of the files it staged: no watermark, converted PNG,
\* video or archive written by the call exists when it responds.
C19_IntakeLeavesNothing ==
    [][\A c \in IntakeCalls :
          (upload_files(c[1], c[2]) /\ http'.code # 202)
              => \A f \in files' : f.o # njobs']_vars

\* C20: two different tasks that are queued or running at the same time
\* never have the same output path, and the result stored for a task in
\* SUCCESS is a file that this task wrote.
C20_DistinctOutputs ==
    /\ \A j, k \in Jobs :
          (j # k /\ job[j].kind # "none" /\ job[k].kind # "none") => OutPath(j) # OutPath(k)
    /\ \A j \in Jobs :
          state[j] = "SUCCESS" => \E f \in outputs : f.p = meta[j].result /\ f.o = j

====
